---- MODULE Spec2Model ----
(***************************************************************************)
(* Model of the `humility qspi` command (src/src/cmd/qspi.rs).             *)
(*                                                                         *)
(* One run of fn qspi: the argument layer (QspiArgs::from_iter_safe), the  *)
(* creation of the HiffyContext, the fetch of the function table, the      *)
(* if-chain that builds the HIF instruction sequence, context.execute, the *)
(* polling loop on context.done with its 100 ms sleep, context.results and *)
(* the println! of the results.                                            *)
(*                                                                         *)
(* Option<T> is a sequence of length 0 (None) or 1 (Some).  A usize is a   *)
(* record [hi, lo] standing for hi * 2^32 + lo, so that `as u32` is a real *)
(* truncation.  A string is a sequence of one-character strings.           *)
(***************************************************************************)
EXTENDS Integers, Sequences, FiniteSets, TLC

\* ------------------------------------------------------------------ bounds
MaxTokens == 3          \* comma-separated tokens in a --write string
MaxPolls == 2           \* context.done queries before the context stops answering false
MaxArity == 2           \* largest argument count of a catalog entry that deviates

\* --------------------------------------------------------------- constants
DefaultTimeout == 5000  \* timeout: default_value = "5000"
PollIntervalMs == 100   \* thread::sleep(Duration::from_millis(100))

\* ------------------------------------------------------------------ Option
None == <<>>
Some(x) == <<x>>
IsSome(o) == Len(o) = 1
Unwrap(o) == o[1]

\* ------------------------------------------------------------------- usize
USize(n) == [hi |-> 0, lo |-> n]

\* a conversion keeping the high 32 bits
AsU32HighWord(v) == v.hi

\* `v as u32`: the low 32 bits of hi * 2^32 + lo
AsU32(v) == v.lo

\* -------------------------------------------------------------- hif::Op
Push32(v) == <<"Push32", v>>
Call(id) == <<"Call", id>>
DoneOp == <<"Done">>

\* ----------------------------------------------------- the function table
FuncNames ==
    {"QspiReadStatus", "QspiReadId", "QspiSectorErase", "QspiBulkErase",
     "QspiRead", "QspiPageProgram"}

\* the argument count each call site of func passes
ExpectedArgs ==
    [n \in FuncNames |->
        CASE n = "QspiReadStatus" -> 0
          [] n = "QspiReadId" -> 0
          [] n = "QspiSectorErase" -> 1
          [] n = "QspiBulkErase" -> 0
          [] n = "QspiRead" -> 2
          [] n = "QspiPageProgram" -> 2]

\* the id of a function: its position in the target's function enumeration
FuncId ==
    [n \in FuncNames |->
        CASE n = "QspiReadStatus" -> 1
          [] n = "QspiReadId" -> 2
          [] n = "QspiSectorErase" -> 3
          [] n = "QspiBulkErase" -> 4
          [] n = "QspiRead" -> 5
          [] n = "QspiPageProgram" -> 6]

\* HiffyFunction: an id and the list of its arguments
Descriptor(n, k) == [id |-> FuncId[n], args |-> [i \in 1..k |-> "arg"]]

\* the table of a target whose QSPI functions have the signatures the
\* command expects
GoodFuncs == [n \in FuncNames |-> Some(Descriptor(n, ExpectedArgs[n]))]

\* the tables context.functions() may return: the good one, and every table
\* that differs from it in one entry (absent, or any argument count)
Catalogs ==
    {GoodFuncs} \cup
    UNION {{[GoodFuncs EXCEPT ![n] = e] :
               e \in {None} \cup {Some(Descriptor(n, k)) : k \in 0..MaxArity}} :
           n \in FuncNames}

\* ---------------------------------------------------------- command line
AddrSamples == {[hi |-> 0, lo |-> 4096], [hi |-> 0, lo |-> 8192], [hi |-> 1, lo |-> 4096]}
NbytesSamples == {[hi |-> 0, lo |-> 4], [hi |-> 1, lo |-> 4]}

TokenSamples ==
    {<<>>, <<"1">>, <<"2", "5", "5">>, <<"2", "5", "6">>, <<"z", "z">>}

RECURSIVE Join(_)
Join(toks) ==
    IF Len(toks) = 1 THEN toks[1]
    ELSE toks[1] \o <<",">> \o Join(Tail(toks))

WriteStrings ==
    {Join(ts) : ts \in UNION {[1..k -> TokenSamples] : k \in 1..MaxTokens}}

CommandLines ==
    [timeout : {DefaultTimeout},
     status : BOOLEAN, id : BOOLEAN, erase : BOOLEAN, bulkerase : BOOLEAN,
     read : BOOLEAN,
     addr : {None} \cup {Some(a) : a \in AddrSamples},
     nbytes : {None} \cup {Some(n) : n \in NbytesSamples},
     write : {None} \cup {Some(w) : w \in WriteStrings}]

\* ------------------------------------------------------------- QspiArgs
ArgNames == {"status", "id", "erase", "bulkerase", "read", "addr", "nbytes", "write"}

\* an argument occurs on the command line
Present(a, name) ==
    CASE name = "status" -> a.status
      [] name = "id" -> a.id
      [] name = "erase" -> a.erase
      [] name = "bulkerase" -> a.bulkerase
      [] name = "read" -> a.read
      [] name = "addr" -> IsSome(a.addr)
      [] name = "nbytes" -> IsSome(a.nbytes)
      [] name = "write" -> IsSome(a.write)

\* the conflicts_with_all attribute of each argument
ConflictsWith ==
    [n \in ArgNames |->
        CASE n = "status" -> {"id", "erase", "read", "write"}
          [] n = "id" -> {"erase", "read", "write"}
          [] n = "erase" -> {"read", "write", "bulkerase"}
          [] n = "bulkerase" -> {"read", "write"}
          [] n = "read" -> {"write"}
          [] OTHER -> {}]

\* no argument requiring another
RequiresNothing == [n \in ArgNames |-> {}]

\* the requires_all attribute of each argument
Requires ==
    [n \in ArgNames |->
        CASE n = "erase" -> {"addr"}
          [] n = "read" -> {"nbytes", "addr"}
          [] OTHER -> {}]

\* QspiArgs::from_iter_safe succeeds: no present argument conflicts with
\* another present one, and every present argument has what it requires
ArgsAccepted(a) ==
    /\ \A n \in ArgNames :
          Present(a, n) => \A m \in ConflictsWith[n] : ~Present(a, m)
    /\ \A n \in ArgNames :
          Present(a, n) => \A m \in Requires[n] : Present(a, m)

\* ------------------------------------------------------- return values
Running == [kind |-> "Running", msg |-> "", detail |-> <<>>]
RetOk == [kind |-> "Ok", msg |-> "", detail |-> <<>>]
Err(msg, detail) == [kind |-> "Err", msg |-> msg, detail |-> detail]
Panic(msg) == [kind |-> "Panic", msg |-> msg, detail |-> <<>>]

\* ------------------------------------------------------- the func closure
\* the closure without its comparison of f.args.len() with nargs
FuncNoArityCheck(funcs, name, nargs) ==
    IF funcs[name] = None
    THEN [ret |-> Err("did not find function", <<name>>), f |-> None]
    ELSE [ret |-> RetOk, f |-> funcs[name]]

\* the closure rejecting only a descriptor with too few arguments
FuncArityAtLeast(funcs, name, nargs) ==
    IF funcs[name] = None
    THEN [ret |-> Err("did not find function", <<name>>), f |-> None]
    ELSE IF Len(Unwrap(funcs[name]).args) < nargs
         THEN [ret |-> Err("mismatched function signature", <<name>>), f |-> None]
         ELSE [ret |-> RetOk, f |-> funcs[name]]

Func(funcs, name, nargs) ==
    IF funcs[name] = None
    THEN [ret |-> Err("did not find function", <<name>>), f |-> None]
    ELSE IF Len(Unwrap(funcs[name]).args) # nargs
         THEN [ret |-> Err("mismatched function signature", <<name>>), f |-> None]
         ELSE [ret |-> RetOk, f |-> funcs[name]]

\* ------------------------------------------------- the --write byte list
\* write.split(","): the tokens between the commas; a string with no comma
\* (the empty string too) is one token
RECURSIVE Split(_)
Split(s) ==
    IF \A i \in 1..Len(s) : s[i] # ","
    THEN <<s>>
    ELSE LET i == CHOOSE k \in 1..Len(s) :
                      s[k] = "," /\ \A j \in 1..(k - 1) : s[j] # ","
         IN <<SubSeq(s, 1, i - 1)>> \o Split(SubSeq(s, i + 1, Len(s)))

U8Max == 255

Digits == {"0", "1", "2", "3", "4", "5", "6", "7", "8", "9"}

DigitVal(c) ==
    CASE c = "0" -> 0 [] c = "1" -> 1 [] c = "2" -> 2 [] c = "3" -> 3
      [] c = "4" -> 4 [] c = "5" -> 5 [] c = "6" -> 6 [] c = "7" -> 7
      [] c = "8" -> 8 [] c = "9" -> 9

\* the digits of a decimal literal, accumulated with u8's overflow check
RECURSIVE FromStrRadix10(_, _)
FromStrRadix10(chars, acc) ==
    IF chars = <<>> THEN Some(acc)
    ELSE IF Head(chars) \notin Digits THEN None
    ELSE LET n == acc * 10 + DigitVal(Head(chars))
         IN IF n > U8Max THEN None ELSE FromStrRadix10(Tail(chars), n)

\* a parse taking the empty token for zero
ParseU8EmptyIsZero(tok) ==
    IF tok = <<>> THEN Some(0) ELSE FromStrRadix10(tok, 0)

\* parse_int::parse::<u8> on a token of decimal digits and other characters
\* (no radix prefix, underscore or sign): Some(value) or None
ParseU8(tok) ==
    IF tok = <<>> THEN None ELSE FromStrRadix10(tok, 0)

\* the loop dropping a token that does not parse instead of bailing
RECURSIVE ParseLoopSkipBad(_, _)
ParseLoopSkipBad(bytes, arr) ==
    IF bytes = <<>> THEN [ok |-> TRUE, arr |-> arr, bad |-> <<>>]
    ELSE LET val == ParseU8(Head(bytes))
         IN IF IsSome(val)
            THEN ParseLoopSkipBad(Tail(bytes), Append(arr, Unwrap(val)))
            ELSE ParseLoopSkipBad(Tail(bytes), arr)

\* the loop over the tokens: the bytes parsed, or the first token that fails
RECURSIVE ParseLoop(_, _)
ParseLoop(bytes, arr) ==
    IF bytes = <<>> THEN [ok |-> TRUE, arr |-> arr, bad |-> <<>>]
    ELSE LET val == ParseU8(Head(bytes))
         IN IF IsSome(val)
            THEN ParseLoop(Tail(bytes), Append(arr, Unwrap(val)))
            ELSE [ok |-> FALSE, arr |-> arr, bad |-> Head(bytes)]

\* --------------------------------------------------- the operation builder
Built(ops, data) == [ret |-> RetOk, ops |-> ops, data |-> data]
Bailed(ret) == [ret |-> ret, ops |-> <<>>, data |-> None]

\* the branch of the if-chain that a QspiArgs value takes
Branch(a) ==
    IF a.status THEN "status"
    ELSE IF a.id THEN "id"
    ELSE IF a.erase THEN "erase"
    ELSE IF a.bulkerase THEN "bulkerase"
    ELSE IF a.read THEN "read"
    ELSE IF IsSome(a.write) THEN "write"
    ELSE "none"

\* the function name each branch passes to func
FuncOf ==
    [b \in {"status", "id", "erase", "bulkerase", "read", "write"} |->
        CASE b = "status" -> "QspiReadStatus"
          [] b = "id" -> "QspiReadId"
          [] b = "erase" -> "QspiSectorErase"
          [] b = "bulkerase" -> "QspiBulkErase"
          [] b = "read" -> "QspiRead"
          [] b = "write" -> "QspiPageProgram"]

StatusOps(a, funcs) ==
    LET r == Func(funcs, "QspiReadStatus", 0)
    IN IF r.ret # RetOk THEN Bailed(r.ret)
       ELSE Built(<<Call(Unwrap(r.f).id)>>, None)

IdOps(a, funcs) ==
    LET r == Func(funcs, "QspiReadId", 0)
    IN IF r.ret # RetOk THEN Bailed(r.ret)
       ELSE Built(<<Call(Unwrap(r.f).id)>>, None)

EraseOps(a, funcs) ==
    LET r == Func(funcs, "QspiSectorErase", 1)
    IN IF r.ret # RetOk THEN Bailed(r.ret)
       ELSE IF a.addr = None THEN Bailed(Panic("unwrap on None"))
       ELSE Built(<<Push32(AsU32(Unwrap(a.addr))), Call(Unwrap(r.f).id)>>, None)

BulkEraseOps(a, funcs) ==
    LET r == Func(funcs, "QspiBulkErase", 0)
    IN IF r.ret # RetOk THEN Bailed(r.ret)
       ELSE Built(<<Call(Unwrap(r.f).id)>>, None)

\* the read branch pushing the length before the address
ReadOpsSwapped(a, funcs) ==
    LET r == Func(funcs, "QspiRead", 2)
    IN IF r.ret # RetOk THEN Bailed(r.ret)
       ELSE IF a.addr = None \/ a.nbytes = None THEN Bailed(Panic("unwrap on None"))
       ELSE Built(<<Push32(AsU32(Unwrap(a.nbytes))),
                    Push32(AsU32(Unwrap(a.addr))),
                    Call(Unwrap(r.f).id)>>, None)

ReadOps(a, funcs) ==
    LET r == Func(funcs, "QspiRead", 2)
    IN IF r.ret # RetOk THEN Bailed(r.ret)
       ELSE IF a.addr = None \/ a.nbytes = None THEN Bailed(Panic("unwrap on None"))
       ELSE Built(<<Push32(AsU32(Unwrap(a.addr))),
                    Push32(AsU32(Unwrap(a.nbytes))),
                    Call(Unwrap(r.f).id)>>, None)

\* the write branch pushing --nbytes, when given, as the byte count
WriteOpsCallerLength(a, funcs) ==
    LET r == Func(funcs, "QspiPageProgram", 2)
        p == ParseLoop(Split(Unwrap(a.write)), <<>>)
    IN IF r.ret # RetOk THEN Bailed(r.ret)
       ELSE IF ~p.ok THEN Bailed(Err("invalid byte", p.bad))
       ELSE IF a.addr = None THEN Bailed(Panic("unwrap on None"))
       ELSE Built(<<Push32(AsU32(Unwrap(a.addr))),
                    Push32(IF IsSome(a.nbytes) THEN AsU32(Unwrap(a.nbytes))
                           ELSE AsU32(USize(Len(p.arr)))),
                    Call(Unwrap(r.f).id)>>, Some(p.arr))

\* the write branch parsing the byte list before it looks the function up
WriteOpsParseFirst(a, funcs) ==
    LET r == Func(funcs, "QspiPageProgram", 2)
        p == ParseLoop(Split(Unwrap(a.write)), <<>>)
    IN IF ~p.ok THEN Bailed(Err("invalid byte", p.bad))
       ELSE IF r.ret # RetOk THEN Bailed(r.ret)
       ELSE IF a.addr = None THEN Bailed(Panic("unwrap on None"))
       ELSE Built(<<Push32(AsU32(Unwrap(a.addr))),
                    Push32(AsU32(USize(Len(p.arr)))),
                    Call(Unwrap(r.f).id)>>, Some(p.arr))

WriteOps(a, funcs) ==
    LET r == Func(funcs, "QspiPageProgram", 2)
        p == ParseLoop(Split(Unwrap(a.write)), <<>>)
    IN IF r.ret # RetOk THEN Bailed(r.ret)
       ELSE IF ~p.ok THEN Bailed(Err("invalid byte", p.bad))
       ELSE IF a.addr = None THEN Bailed(Panic("unwrap on None"))
       ELSE Built(<<Push32(AsU32(Unwrap(a.addr))),
                    Push32(AsU32(USize(Len(p.arr)))),
                    Call(Unwrap(r.f).id)>>, Some(p.arr))

\* a chain of independent ifs: bulk-erase also runs after status or id
BuildOpsEveryFlag(a, funcs) ==
    IF (a.status \/ a.id) /\ a.bulkerase
    THEN LET first == IF a.status THEN StatusOps(a, funcs) ELSE IdOps(a, funcs)
             second == BulkEraseOps(a, funcs)
         IN IF first.ret # RetOk THEN first
            ELSE IF second.ret # RetOk THEN second
            ELSE Built(first.ops \o second.ops, None)
    ELSE CASE Branch(a) = "status" -> StatusOps(a, funcs)
           [] Branch(a) = "id" -> IdOps(a, funcs)
           [] Branch(a) = "erase" -> EraseOps(a, funcs)
           [] Branch(a) = "bulkerase" -> BulkEraseOps(a, funcs)
           [] Branch(a) = "read" -> ReadOps(a, funcs)
           [] Branch(a) = "write" -> WriteOps(a, funcs)
           [] OTHER -> Bailed(Err("expected an operation", <<>>))

\* a builder that looks every QSPI function up before it takes a branch
BuildOpsLookupAll(a, funcs) ==
    IF \E n \in FuncNames : Func(funcs, n, ExpectedArgs[n]).ret # RetOk
    THEN Bailed(Func(funcs,
                     CHOOSE n \in FuncNames : Func(funcs, n, ExpectedArgs[n]).ret # RetOk,
                     ExpectedArgs[CHOOSE n \in FuncNames :
                                     Func(funcs, n, ExpectedArgs[n]).ret # RetOk]).ret)
    ELSE CASE Branch(a) = "status" -> StatusOps(a, funcs)
           [] Branch(a) = "id" -> IdOps(a, funcs)
           [] Branch(a) = "erase" -> EraseOps(a, funcs)
           [] Branch(a) = "bulkerase" -> BulkEraseOps(a, funcs)
           [] Branch(a) = "read" -> ReadOps(a, funcs)
           [] Branch(a) = "write" -> WriteOps(a, funcs)
           [] OTHER -> Bailed(Err("expected an operation", <<>>))

\* the if-chain: the instructions before the terminator, and the payload
BuildOps(a, funcs) ==
    CASE Branch(a) = "status" -> StatusOps(a, funcs)
      [] Branch(a) = "id" -> IdOps(a, funcs)
      [] Branch(a) = "erase" -> EraseOps(a, funcs)
      [] Branch(a) = "bulkerase" -> BulkEraseOps(a, funcs)
      [] Branch(a) = "read" -> ReadOps(a, funcs)
      [] Branch(a) = "write" -> WriteOps(a, funcs)
      [] OTHER -> Bailed(Err("expected an operation", <<>>))

\* ------------------------------------------------------------------ state
VARIABLES
    cmdline,        \* the subargs vector handed to qspi
    pc,             \* where the run of qspi is
    subargs,        \* Option<QspiArgs>: the parsed arguments
    context,        \* Option<HiffyContext>
    funcs,          \* Option of the function table
    ops,            \* the instruction vector
    data,           \* Option<Vec<u8>>: the payload
    submitted,      \* the arguments of each context.execute call, in order
    doneCalls,      \* the context.done queries made
    lastDone,       \* the answer of the last context.done query
    sleptMs,        \* the milliseconds slept in the polling loop
    resultsCalls,   \* the context.results calls made
    printed,        \* what println! has written: the result lists
    calls,          \* the context calls and sleeps made, each with what it returned
    ret             \* what qspi has returned

vars ==
    <<cmdline, pc, subargs, context, funcs, ops, data, submitted, doneCalls,
      lastDone, sleptMs, resultsCalls, printed, calls, ret>>

executeCalls == Len(submitted)

Init ==
    /\ cmdline \in CommandLines
    /\ pc = "start"
    /\ subargs = None
    /\ context = None
    /\ funcs = None
    /\ ops = <<>>
    /\ data = None
    /\ submitted = <<>>
    /\ doneCalls = 0
    /\ lastDone = "none"
    /\ sleptMs = 0
    /\ resultsCalls = 0
    /\ printed = <<>>
    /\ calls = <<>>
    /\ ret = Running

\* let subargs = QspiArgs::from_iter_safe(subargs)?;
ParseArgs ==
    /\ pc = "start"
    /\ IF ArgsAccepted(cmdline)
       THEN /\ subargs' = Some(cmdline)
            /\ pc' = "parsed"
            /\ ret' = ret
       ELSE /\ subargs' = subargs
            /\ pc' = "returned"
            /\ ret' = Err("argument error", <<>>)
    /\ UNCHANGED <<calls, cmdline, context, funcs, ops, data, submitted, doneCalls,
                   lastDone, sleptMs, resultsCalls, printed>>

\* let mut context = HiffyContext::new(hubris, core, subargs.timeout)?;
NewContext ==
    /\ pc = "parsed"
    /\ \E ok \in BOOLEAN :
          IF ok
          THEN /\ context' = Some([timeout |-> Unwrap(subargs).timeout])
               /\ pc' = "context"
               /\ ret' = ret
          ELSE /\ context' = context
               /\ pc' = "returned"
               /\ ret' = Err("context error", <<>>)
    /\ UNCHANGED <<calls, cmdline, subargs, funcs, ops, data, submitted, doneCalls,
                   lastDone, sleptMs, resultsCalls, printed>>

\* let funcs = context.functions()?;
Functions ==
    /\ pc = "context"
    /\ \/ \E c \in Catalogs :
             /\ funcs' = Some(c)
             /\ pc' = "funcs"
             /\ ret' = ret
       \/ /\ funcs' = funcs
          /\ pc' = "returned"
          /\ ret' = Err("functions error", <<>>)
    /\ UNCHANGED <<calls, cmdline, subargs, context, ops, data, submitted, doneCalls,
                   lastDone, sleptMs, resultsCalls, printed>>

\* the builder without the final ops.push(Op::Done)
BuildNoDone ==
    /\ pc = "funcs"
    /\ LET b == BuildOps(Unwrap(subargs), Unwrap(funcs))
       IN IF b.ret = RetOk
          THEN /\ ops' = b.ops
               /\ data' = b.data
               /\ pc' = "built"
               /\ ret' = ret
          ELSE /\ ops' = b.ops
               /\ data' = b.data
               /\ pc' = IF b.ret.kind = "Panic" THEN "panicked" ELSE "returned"
               /\ ret' = b.ret
    /\ UNCHANGED <<calls, cmdline, subargs, context, funcs, submitted, doneCalls,
                   lastDone, sleptMs, resultsCalls, printed>>

\* let mut ops = vec![]; let data = if ... else { bail!(..) }; ops.push(Op::Done);
Build ==
    /\ pc = "funcs"
    /\ LET b == BuildOps(Unwrap(subargs), Unwrap(funcs))
       IN IF b.ret = RetOk
          THEN /\ ops' = Append(b.ops, DoneOp)
               /\ data' = b.data
               /\ pc' = "built"
               /\ ret' = ret
          ELSE /\ ops' = b.ops
               /\ data' = b.data
               /\ pc' = IF b.ret.kind = "Panic" THEN "panicked" ELSE "returned"
               /\ ret' = b.ret
    /\ UNCHANGED <<calls, cmdline, subargs, context, funcs, submitted, doneCalls,
                   lastDone, sleptMs, resultsCalls, printed>>

\* execute with its error dropped: the run goes on to poll
ExecuteIgnoresError ==
    /\ pc = "built"
    /\ submitted' = Append(submitted, [ops |-> ops, data |-> data])
    /\ \E ok \in BOOLEAN :
          /\ calls' = Append(calls, <<"execute", IF ok THEN "ok" ELSE "error">>)
          /\ pc' = "polling"
          /\ ret' = ret
    /\ UNCHANGED <<cmdline, subargs, context, funcs, ops, data, doneCalls,
                   lastDone, sleptMs, resultsCalls, printed>>

\* execute submitting a second time when the first submission fails
ExecuteRetrying ==
    /\ pc = "built"
    /\ submitted' = Append(submitted, [ops |-> ops, data |-> data])
    /\ \E ok \in BOOLEAN :
          /\ calls' = Append(calls, <<"execute", IF ok THEN "ok" ELSE "error">>)
          /\ IF ok
             THEN pc' = "polling" /\ ret' = ret
             ELSE IF Len(submitted) = 0
                  THEN pc' = "built" /\ ret' = ret
                  ELSE pc' = "returned" /\ ret' = Err("execute error", <<>>)
    /\ UNCHANGED <<cmdline, subargs, context, funcs, ops, data, doneCalls,
                   lastDone, sleptMs, resultsCalls, printed>>

\* context.execute(core, ops.as_slice(), data)?;
Execute ==
    /\ pc = "built"
    /\ submitted' = Append(submitted, [ops |-> ops, data |-> data])
    /\ \E ok \in BOOLEAN :
          /\ calls' = Append(calls, <<"execute", IF ok THEN "ok" ELSE "error">>)
          /\ IF ok
             THEN pc' = "polling" /\ ret' = ret
             ELSE pc' = "returned" /\ ret' = Err("execute error", <<>>)
    /\ UNCHANGED <<cmdline, subargs, context, funcs, ops, data, doneCalls,
                   lastDone, sleptMs, resultsCalls, printed>>

\* the loop querying again at once after a false answer, without the sleep
DoneQueryBusySpin ==
    /\ pc = "polling"
    /\ doneCalls' = doneCalls + 1
    /\ \E answer \in {"true", "false", "error"} :
          /\ answer = "false" => doneCalls + 1 < MaxPolls
          /\ lastDone' = answer
          /\ calls' = Append(calls, <<"done", answer>>)
          /\ pc' = CASE answer = "true" -> "fetch"
                     [] answer = "false" -> "polling"
                     [] OTHER -> "returned"
          /\ ret' = IF answer = "error" THEN Err("done error", <<>>) ELSE ret
    /\ UNCHANGED <<cmdline, subargs, context, funcs, ops, data, submitted,
                   sleptMs, resultsCalls, printed>>

\* the loop breaking on any answer that is no error
DoneQueryBreakOnFalse ==
    /\ pc = "polling"
    /\ doneCalls' = doneCalls + 1
    /\ \E answer \in {"true", "false", "error"} :
          /\ answer = "false" => doneCalls + 1 < MaxPolls
          /\ lastDone' = answer
          /\ calls' = Append(calls, <<"done", answer>>)
          /\ pc' = CASE answer = "true" -> "fetch"
                     [] answer = "false" -> "fetch"
                     [] OTHER -> "returned"
          /\ ret' = IF answer = "error" THEN Err("done error", <<>>) ELSE ret
    /\ UNCHANGED <<cmdline, subargs, context, funcs, ops, data, submitted,
                   sleptMs, resultsCalls, printed>>

\* if context.done(core)? { break; }
DoneQuery ==
    /\ pc = "polling"
    /\ doneCalls' = doneCalls + 1
    /\ \E answer \in {"true", "false", "error"} :
          /\ answer = "false" => doneCalls + 1 < MaxPolls
          /\ lastDone' = answer
          /\ calls' = Append(calls, <<"done", answer>>)
          /\ pc' = CASE answer = "true" -> "fetch"
                     [] answer = "false" -> "sleep"
                     [] OTHER -> "returned"
          /\ ret' = IF answer = "error" THEN Err("done error", <<>>) ELSE ret
    /\ UNCHANGED <<cmdline, subargs, context, funcs, ops, data, submitted,
                   sleptMs, resultsCalls, printed>>

\* a sleep that never returns to the loop
SleepNeverReturns ==
    /\ pc = "sleep"
    /\ UNCHANGED vars

\* thread::sleep(Duration::from_millis(100));
Sleep ==
    /\ pc = "sleep"
    /\ sleptMs' = sleptMs + PollIntervalMs
    /\ calls' = Append(calls, <<"sleep", "ok">>)
    /\ pc' = "polling"
    /\ UNCHANGED <<cmdline, subargs, context, funcs, ops, data, submitted,
                   doneCalls, lastDone, resultsCalls, printed, ret>>

\* the entries a result list may hold for one call
ResultEntries == {"Ok", "Err"}

\* a fetch that turns a failed entry into an error of the command
ResultsFailOnErrEntry ==
    /\ pc = "fetch"
    /\ resultsCalls' = resultsCalls + 1
    /\ \/ \E e \in ResultEntries :
             /\ calls' = Append(calls, <<"results", e>>)
             /\ IF e = "Err"
                THEN printed' = printed /\ ret' = Err("call failed", <<>>)
                ELSE printed' = Append(printed, <<e>>) /\ ret' = RetOk
       \/ /\ calls' = Append(calls, <<"results", "error">>)
          /\ printed' = printed
          /\ ret' = Err("results error", <<>>)
    /\ pc' = "returned"
    /\ UNCHANGED <<cmdline, subargs, context, funcs, ops, data, submitted,
                   doneCalls, lastDone, sleptMs>>

\* let results = context.results(core)?; println!("{:x?}", results); Ok(())
Results ==
    /\ pc = "fetch"
    /\ resultsCalls' = resultsCalls + 1
    /\ \/ \E e \in ResultEntries :
             /\ calls' = Append(calls, <<"results", e>>)
             /\ printed' = Append(printed, <<e>>)
             /\ ret' = RetOk
       \/ /\ calls' = Append(calls, <<"results", "error">>)
          /\ printed' = printed
          /\ ret' = Err("results error", <<>>)
    /\ pc' = "returned"
    /\ UNCHANGED <<cmdline, subargs, context, funcs, ops, data, submitted,
                   doneCalls, lastDone, sleptMs>>

Next ==
    \/ ParseArgs
    \/ NewContext
    \/ Functions
    \/ Build
    \/ Execute
    \/ DoneQuery
    \/ Sleep
    \/ Results

Spec == Init /\ [][Next]_vars

\* the runs whose command line gives no byte list
NoWriteInit == Init /\ cmdline.write = None

\* the run is one thread of control that takes its next step whenever it
\* has one
FairSpec == NoWriteInit /\ [][Next]_vars /\ WF_vars(Next)

\* =================================================================== claims
\* the positions of the Push32 instructions before position i of a sequence
PushesBefore(o, i) == {j \in 1..(i - 1) : o[j][1] = "Push32"}

\* the entries of the fetched function table
Table == Unwrap(funcs)

\* the id the fetched table gives a function
IdOf(name) == Unwrap(Table[name]).id

\* the action flags given on a command line
ActionFlags(a) ==
    {n \in {"status", "id", "erase", "bulkerase", "read", "write"} : Present(a, n)}

\* the tokens of the --write string and those that do not parse
Tokens(a) == Split(Unwrap(a.write))
BadTokens(a) == {i \in 1..Len(Tokens(a)) : ParseU8(Tokens(a)[i]) = None}

Finished == pc \in {"returned", "panicked"}

\* C1: in every sequence handed to execute, the number of Push32 instructions
\* before the Call equals the number of arguments of the table's descriptor
\* that has the Call's id, whatever the action and the function table.
C1_CallArityMatchesDescriptor ==
    \A k \in 1..Len(submitted) :
        LET o == submitted[k].ops
        IN \A i \in 1..Len(o) :
              o[i][1] = "Call" =>
                 /\ \E n \in FuncNames :
                       IsSome(Table[n]) /\ IdOf(n) = o[i][2]
                 /\ \A n \in FuncNames :
                       (IsSome(Table[n]) /\ IdOf(n) = o[i][2]) =>
                          Len(Unwrap(Table[n]).args) = Cardinality(PushesBefore(o, i))

C1_Witness ==
    /\ Len(submitted) = 1
    /\ Branch(cmdline) = "read"
    /\ Table # GoodFuncs
    /\ Cardinality(PushesBefore(submitted[1].ops, 3)) = 2

\* C2: what execute receives is the row of the mapping table for the action:
\* [Call, Done] for read-status, read-id and bulk-erase, [Push32(address),
\* Call, Done] for sector-erase, [Push32(address), Push32(length), Call, Done]
\* for read-range, all without payload, and [Push32(address),
\* Push32(byte count), Call, Done] with the parsed bytes as payload for
\* write-bytes; a payload is present exactly for write-bytes.  Operands are
\* the 32-bit values of the address and the length.
C2_MappingTable ==
    \A k \in 1..Len(submitted) :
        LET a == cmdline
            o == submitted[k].ops
            d == submitted[k].data
            toks == Tokens(a)
        IN /\ Branch(a) = "status" =>
                 o = <<Call(IdOf("QspiReadStatus")), DoneOp>> /\ d = None
           /\ Branch(a) = "id" =>
                 o = <<Call(IdOf("QspiReadId")), DoneOp>> /\ d = None
           /\ Branch(a) = "bulkerase" =>
                 o = <<Call(IdOf("QspiBulkErase")), DoneOp>> /\ d = None
           /\ Branch(a) = "erase" =>
                 /\ o = <<Push32(Unwrap(a.addr).lo), Call(IdOf("QspiSectorErase")), DoneOp>>
                 /\ d = None
           /\ Branch(a) = "read" =>
                 /\ o = <<Push32(Unwrap(a.addr).lo), Push32(Unwrap(a.nbytes).lo),
                          Call(IdOf("QspiRead")), DoneOp>>
                 /\ d = None
           /\ Branch(a) = "write" =>
                 /\ o = <<Push32(Unwrap(a.addr).lo), Push32(Len(toks)),
                          Call(IdOf("QspiPageProgram")), DoneOp>>
                 /\ d = Some([i \in 1..Len(toks) |-> Unwrap(ParseU8(toks[i]))])
           /\ Branch(a) # "none"
           /\ IsSome(d) <=> Branch(a) = "write"
           /\ (a.write = Some(<<"1", ",", "1", ",", "2", "5", "5">>)
               /\ a.addr = Some([hi |-> 0, lo |-> 8192])) =>
                 /\ o = <<Push32(8192), Push32(3), Call(IdOf("QspiPageProgram")), DoneOp>>
                 /\ d = Some(<<1, 1, 255>>)
           /\ (a.erase /\ a.addr = Some([hi |-> 0, lo |-> 4096])) =>
                 o = <<Push32(4096), Call(IdOf("QspiSectorErase")), DoneOp>>

C2_Witness ==
    /\ Len(submitted) = 1
    /\ cmdline.read
    /\ submitted[1].ops = <<Push32(8192), Push32(4), Call(5), DoneOp>>
    /\ submitted[1].data = None

\* C3: an invocation that gives no action flag, or two or more of status, id,
\* erase, bulkerase, read and write, is rejected with an error and nothing
\* is handed to execute.
C3_ExactlyOneAction ==
    Cardinality(ActionFlags(cmdline)) # 1 =>
        /\ submitted = <<>>
        /\ ret.kind \in {"Running", "Err"}
        /\ Finished => ret.kind = "Err"

\* C4: a write-bytes request without an address is rejected with an error
\* returned to the caller, not a crash, and execute is never called.
C4_WriteWithoutAddrIsError ==
    (IsSome(cmdline.write) /\ cmdline.addr = None) =>
        /\ submitted = <<>>
        /\ ret.kind \in {"Running", "Err"}
        /\ Finished => ret.kind = "Err"

\* C5: with sector-erase selected and no address, or read-range selected
\* and no address or no length, the run is rejected with an error and
\* execute, done and results are never called.
C5_MissingParameterRejected ==
    (\/ cmdline.erase /\ cmdline.addr = None
     \/ cmdline.read /\ (cmdline.addr = None \/ cmdline.nbytes = None)) =>
        /\ submitted = <<>>
        /\ doneCalls = 0
        /\ resultsCalls = 0
        /\ ret.kind \in {"Running", "Err"}
        /\ Finished => ret.kind = "Err"

C5_Witness ==
    /\ pc = "returned"
    /\ ret.kind = "Err"
    /\ cmdline.read
    /\ IsSome(cmdline.addr)
    /\ cmdline.nbytes = None
    /\ ActionFlags(cmdline) = {"read"}

\* C6: for write-bytes the second Push32 operand handed to execute is the
\* number of bytes parsed, which is the length of the payload handed to
\* execute, also when --nbytes is given with another value.
C6_ByteCountIsPayloadLength ==
    \A k \in 1..Len(submitted) :
        Branch(cmdline) = "write" =>
            LET o == submitted[k].ops
                d == submitted[k].data
                toks == Tokens(cmdline)
            IN /\ IsSome(d)
               /\ o[2] = Push32(Len(Unwrap(d)))
               /\ Len(Unwrap(d)) =
                     Cardinality({i \in 1..Len(toks) : IsSome(ParseU8(toks[i]))})

C6_Witness ==
    /\ Len(submitted) = 1
    /\ Branch(cmdline) = "write"
    /\ cmdline.nbytes = Some([hi |-> 0, lo |-> 4])
    /\ submitted[1].ops[2] = Push32(2)
    /\ Len(Unwrap(submitted[1].data)) = 2

\* the first token of the --write string that does not parse
FirstBadToken(a) ==
    Tokens(a)[CHOOSE i \in BadTokens(a) : \A j \in BadTokens(a) : i <= j]

\* a write-bytes run whose byte list has a token that does not parse
BadWrite ==
    /\ IsSome(subargs)
    /\ Branch(cmdline) = "write"
    /\ BadTokens(cmdline) # {}

\* C7 as stated: a write-bytes run with a token that is no u8, once the
\* function table is fetched, ends with the invalid-byte error naming the
\* first such token, and hands nothing to execute.
C7_BadTokenAlwaysInvalidByte ==
    (BadWrite /\ IsSome(funcs) /\ Finished) =>
        /\ ret = Err("invalid byte", FirstBadToken(cmdline))
        /\ submitted = <<>>

\* C7 amended: a write-bytes run with a token that is no u8 never hands
\* anything to execute; when QspiPageProgram is in the function table with
\* two arguments, the run ends with the invalid-byte error naming the first
\* such token, no instruction pushed.
C7_BadTokenFailsRequest ==
    BadWrite =>
        /\ submitted = <<>>
        /\ ops = <<>>
        /\ (/\ Finished
            /\ IsSome(funcs)
            /\ IsSome(Table["QspiPageProgram"])
            /\ Len(Unwrap(Table["QspiPageProgram"]).args) = 2) =>
              ret = Err("invalid byte", FirstBadToken(cmdline))

C7_Witness ==
    /\ pc = "returned"
    /\ cmdline.write = Some(<<"1", ",", "z", "z", ",", "2", "5", "6">>)
    /\ ret = Err("invalid byte", <<"z", "z">>)
    /\ submitted = <<>>

\* C8: when the function of the branch taken is absent from the fetched
\* table, the run ends with the not-found error naming that function; no
\* instruction is pushed and execute, done and results are never called.
C8_AbsentFunctionNotFound ==
    (/\ IsSome(funcs)
     /\ Branch(cmdline) # "none"
     /\ Table[FuncOf[Branch(cmdline)]] = None) =>
        /\ ops = <<>>
        /\ submitted = <<>>
        /\ doneCalls = 0
        /\ resultsCalls = 0
        /\ pc \in {"funcs", "returned"}
        /\ pc = "returned" =>
              ret = Err("did not find function", <<FuncOf[Branch(cmdline)]>>)

C8_Witness ==
    /\ pc = "returned"
    /\ IsSome(funcs)
    /\ Branch(cmdline) = "write"
    /\ BadTokens(cmdline) # {}
    /\ Table["QspiPageProgram"] = None
    /\ ret = Err("did not find function", <<"QspiPageProgram">>)

\* the number of operands each action pushes
PushCount ==
    [b \in {"status", "id", "erase", "bulkerase", "read", "write"} |->
        CASE b \in {"status", "id", "bulkerase"} -> 0
          [] b = "erase" -> 1
          [] b \in {"read", "write"} -> 2]

\* C9: when the descriptor found for the function of the branch taken has
\* another argument count than the action pushes, the run ends with the
\* signature-mismatch error, no instruction pushed, execute never called.
C9_ArityMismatchRejected ==
    (/\ IsSome(funcs)
     /\ Branch(cmdline) # "none"
     /\ IsSome(Table[FuncOf[Branch(cmdline)]])
     /\ Len(Unwrap(Table[FuncOf[Branch(cmdline)]]).args) # PushCount[Branch(cmdline)]) =>
        /\ ops = <<>>
        /\ submitted = <<>>
        /\ pc \in {"funcs", "returned"}
        /\ pc = "returned" =>
              ret = Err("mismatched function signature", <<FuncOf[Branch(cmdline)]>>)

C9_Witness ==
    /\ pc = "returned"
    /\ IsSome(funcs)
    /\ Branch(cmdline) = "erase"
    /\ IsSome(Table["QspiSectorErase"])
    /\ Len(Unwrap(Table["QspiSectorErase"]).args) = 2
    /\ ret = Err("mismatched function signature", <<"QspiSectorErase">>)

\* the builder has finished the sequence: local validation has passed
ValidationPassed == ops # <<>> /\ ops[Len(ops)] = DoneOp

\* C10: execute is called at most once in a run; once local validation has
\* passed and the run has left the builder it has been called exactly once,
\* also after execute, done or results failed; a run that fails validation
\* never calls it.
C10_OneExecution ==
    /\ executeCalls <= 1
    /\ (ValidationPassed /\ pc # "built") => executeCalls = 1
    /\ ~ValidationPassed => executeCalls = 0
    /\ pc \in {"polling", "sleep", "fetch"} => ValidationPassed
    /\ ret.msg \in {"execute error", "done error", "results error"} =>
          (executeCalls = 1 /\ pc = "returned")

C10_Witness ==
    /\ pc = "returned"
    /\ ret = Err("done error", <<>>)
    /\ doneCalls = 2
    /\ executeCalls = 1

\* the positions of the log that hold a call of the given name
CallsOf(name) == {i \in 1..Len(calls) : calls[i][1] = name}

\* C11: once the polling loop is entered it ends after finitely many
\* queries: the run reaches the results fetch (done answered true) or
\* returns the error of the failed query.
C11_PollingTerminates ==
    (pc = "polling") ~>
        (\/ pc = "fetch" /\ lastDone = "true"
         \/ pc = "returned" /\ ret = Err("done error", <<>>))

C11_Witness ==
    /\ pc = "fetch"
    /\ doneCalls = 2
    /\ calls = <<<<"execute", "ok">>, <<"done", "false">>, <<"sleep", "ok">>,
                 <<"done", "true">>>>

\* C12: between two consecutive done queries there is exactly one sleep of
\* the fixed interval, and a query that answered false is followed by a
\* sleep before anything else.
C12_SleepBetweenQueries ==
    /\ \A i \in CallsOf("done"), j \in CallsOf("done") :
          (i < j /\ \A k \in (i + 1)..(j - 1) : k \notin CallsOf("done")) =>
             (j = i + 2 /\ calls[i + 1] = <<"sleep", "ok">>)
    /\ \A i \in 1..(Len(calls) - 1) :
          calls[i] = <<"done", "false">> => calls[i + 1] = <<"sleep", "ok">>
    /\ \A i \in CallsOf("sleep") : i > 1 /\ calls[i - 1] = <<"done", "false">>
    /\ sleptMs = PollIntervalMs * Cardinality(CallsOf("sleep"))
    /\ (Len(calls) > 0 /\ calls[Len(calls)] = <<"done", "false">>) => pc = "sleep"

C12_Witness ==
    /\ pc = "polling"
    /\ doneCalls = 1
    /\ sleptMs = 100
    /\ calls[Len(calls)] = <<"sleep", "ok">>

\* C13: done is queried only after execute has succeeded; results is fetched
\* only after a done query answered true, and once; after the run has
\* returned or crashed no execute, done or results call is made.
C13_StateMachine ==
    /\ [](/\ \A i \in CallsOf("done") :
                \E j \in 1..(i - 1) : calls[j] = <<"execute", "ok">>
          /\ \A i \in CallsOf("results") : i > 1 /\ calls[i - 1] = <<"done", "true">>
          /\ Cardinality(CallsOf("results")) <= 1
          /\ Cardinality(CallsOf("execute")) <= 1
          /\ \A i \in CallsOf("execute") : i = 1
          /\ executeCalls = Cardinality(CallsOf("execute"))
          /\ doneCalls = Cardinality(CallsOf("done"))
          /\ resultsCalls = Cardinality(CallsOf("results"))
          /\ (\E i \in CallsOf("results") : TRUE) => Finished
          /\ (Len(calls) > 0 /\ calls[Len(calls)][2] = "error") => Finished)
    /\ [][Finished => calls' = calls]_vars

C13_Witness ==
    /\ pc = "returned"
    /\ calls = <<<<"execute", "ok">>, <<"done", "false">>, <<"sleep", "ok">>,
                 <<"done", "true">>, <<"results", "Ok">>>>

\* the error qspi returns when a call on the context fails
ErrorOf(call) ==
    CASE call = "execute" -> Err("execute error", <<>>)
      [] call = "done" -> Err("done error", <<>>)
      [] call = "results" -> Err("results error", <<>>)

\* C14: when execute, a done query or results returns an error, that call
\* is the last one made on the context, the command returns that error and
\* nothing has been printed.
C14_ErrorsAbort ==
    \A i \in 1..Len(calls) :
        calls[i][2] = "error" =>
            /\ i = Len(calls)
            /\ pc = "returned"
            /\ ret = ErrorOf(calls[i][1])
            /\ printed = <<>>

C14_Witness ==
    /\ Len(calls) = 3
    /\ calls[3] = <<"results", "error">>
    /\ ret = Err("results error", <<>>)
    /\ printed = <<>>

\* C15: when results returns a result list, the command prints it and
\* returns success, the same for an entry that is a failure marker as for
\* one that is a success value.
C15_RemoteFailureNotFatal ==
    \A i \in CallsOf("results") :
        calls[i][2] \in ResultEntries =>
            /\ pc = "returned"
            /\ ret = RetOk
            /\ printed = <<<<calls[i][2]>>>>

C15_Witness ==
    /\ pc = "returned"
    /\ Len(calls) > 0
    /\ calls[Len(calls)] = <<"results", "Err">>
    /\ printed = <<<<"Err">>>>
    /\ ret = RetOk

\* C16: every sequence handed to execute has Done as its last instruction
\* and at no earlier position.
C16_OneTerminatorLast ==
    \A k \in 1..Len(submitted) :
        LET o == submitted[k].ops
        IN /\ Len(o) >= 1
           /\ {i \in 1..Len(o) : o[i] = DoneOp} = {Len(o)}

C16_Witness ==
    /\ Len(submitted) = 1
    /\ Len(submitted[1].ops) = 4
    /\ submitted[1].ops[4] = DoneOp
    /\ IsSome(submitted[1].data)

\* C17: every sequence handed to execute holds exactly one Call, also for
\* the accepted command lines that set more than one action flag.
C17_ExactlyOneCall ==
    \A k \in 1..Len(submitted) :
        Cardinality({i \in 1..Len(submitted[k].ops) :
                        submitted[k].ops[i][1] = "Call"}) = 1

C17_Witness ==
    /\ Len(submitted) = 1
    /\ Cardinality(ActionFlags(cmdline)) = 2
    /\ cmdline.id /\ cmdline.bulkerase
    /\ submitted[1].ops = <<Call(2), DoneOp>>

\* the positions of the empty tokens of the --write string
EmptyTokens(a) == {i \in 1..Len(Tokens(a)) : Tokens(a)[i] = <<>>}

\* a write-bytes run whose byte list has an empty token
EmptyTokenWrite ==
    /\ IsSome(subargs)
    /\ Branch(cmdline) = "write"
    /\ EmptyTokens(cmdline) # {}

\* C18 as stated: a write-bytes run whose byte list has an empty token, once
\* the function table is fetched, ends with an invalid-byte error and hands
\* nothing to execute.
C18_EmptyTokenAlwaysInvalidByte ==
    (EmptyTokenWrite /\ IsSome(funcs) /\ Finished) =>
        /\ ret.kind = "Err"
        /\ ret.msg = "invalid byte"
        /\ submitted = <<>>

\* C18 amended: a write-bytes run whose byte list has an empty token never
\* hands anything to execute, and ends with an invalid-byte error when
\* QspiPageProgram is in the function table with two arguments; a payload
\* handed to execute is not empty and has one byte for each token.
C18_EmptyTokenFailsRequest ==
    /\ EmptyTokenWrite =>
          /\ submitted = <<>>
          /\ (/\ Finished
              /\ IsSome(funcs)
              /\ IsSome(Table["QspiPageProgram"])
              /\ Len(Unwrap(Table["QspiPageProgram"]).args) = 2) =>
                (/\ ret.kind = "Err"
                 /\ ret.msg = "invalid byte"
                 /\ ret.detail = FirstBadToken(cmdline))
    /\ \A k \in 1..Len(submitted) :
          IsSome(submitted[k].data) =>
             /\ Len(Unwrap(submitted[k].data)) >= 1
             /\ Len(Unwrap(submitted[k].data)) = Len(Tokens(cmdline))

C18_Witness ==
    /\ pc = "returned"
    /\ cmdline.write = Some(<<"1", ",", ",", "2", "5", "5">>)
    /\ ret = Err("invalid byte", <<>>)
    /\ submitted = <<>>

\* C19: the address and length operands handed to execute are the low 32
\* bits of the values given: a value of 2^32 or more is accepted and pushed
\* as its remainder modulo 2^32.
C19_OperandsTruncated ==
    \A k \in 1..Len(submitted) :
        LET o == submitted[k].ops
            a == cmdline
        IN /\ Branch(a) \in {"erase", "read", "write"} =>
                 o[1] = Push32(Unwrap(a.addr).lo)
           /\ Branch(a) = "read" => o[2] = Push32(Unwrap(a.nbytes).lo)
           /\ (Branch(a) \in {"erase", "read", "write"}
               /\ a.addr = Some([hi |-> 1, lo |-> 4096])) => o[1] = Push32(4096)

C19_Witness ==
    /\ Len(submitted) = 1
    /\ cmdline.read
    /\ cmdline.addr = Some([hi |-> 1, lo |-> 4096])
    /\ cmdline.nbytes = Some([hi |-> 1, lo |-> 4])
    /\ submitted[1].ops = <<Push32(4096), Push32(4), Call(5), DoneOp>>

\* the state the builder leaves for a function table
BuildResult(c) ==
    LET b == BuildOps(cmdline, c)
    IN IF b.ret = RetOk
       THEN [ret |-> RetOk, ops |-> Append(b.ops, DoneOp), data |-> b.data]
       ELSE b

\* the function the branch taken looks up, if the branch looks one up
Selected == IF Branch(cmdline) = "none" THEN {} ELSE {FuncOf[Branch(cmdline)]}

\* tables that keep the fetched entry of the selected function and have all
\* the other QSPI functions absent, or all with one and the same arity
ElsewhereVariants ==
    {[n \in FuncNames |-> IF n \in Selected THEN Table[n] ELSE None]} \cup
    {[n \in FuncNames |-> IF n \in Selected THEN Table[n] ELSE Some(Descriptor(n, k))] :
        k \in 0..MaxArity}

\* the tables that give the selected function the entry that the fetched
\* table gives it
AgreeingCatalogs ==
    {c \in Catalogs \cup ElsewhereVariants : \A n \in Selected : c[n] = Table[n]}

\* C20: a run that has passed the builder is in the state the builder
\* leaves for every table that agrees with the fetched one on the function
\* of the branch taken, whatever its other entries: the same error, or the
\* same sequence and payload.
C20_OnlySelectedFunctionMatters ==
    (IsSome(funcs) /\ pc # "funcs") =>
        \A c \in AgreeingCatalogs :
            LET r == BuildResult(c)
            IN /\ r.ops = ops
               /\ r.data = data
               /\ r.ret # RetOk => ret = r.ret
               /\ r.ret = RetOk =>
                     (pc = "built" \/ submitted = <<[ops |-> ops, data |-> data]>>)

C20_Witness ==
    /\ Len(submitted) = 1
    /\ Branch(cmdline) = "erase"
    /\ Table["QspiRead"] = None
    /\ GoodFuncs \in AgreeingCatalogs
    /\ [n \in FuncNames |-> IF n = "QspiSectorErase" THEN Table[n] ELSE None]
          \in AgreeingCatalogs
    /\ submitted[1].ops = <<Push32(8192), Call(3), DoneOp>>

====
